---- MODULE Spec2Model ----
(***************************************************************************)
(* Deribit VBI service (src/deribit.py): the retrying fetcher get_json,    *)
(* the expiry ladder and ATM selection, the scorer compute_vbi with its    *)
(* per-currency rolling histories, and the cycle loop of main with its     *)
(* degraded counters, alert latch, event sink and heartbeat.               *)
(*                                                                         *)
(* Units.  Implied volatilities are integers (vol points).  Timestamps are *)
(* counted in hours instead of milliseconds, so that 120 days fit TLC's    *)
(* integers; a day is DAY hours.  A Python None is the empty sequence and  *)
(* a present value v is <<v>>.                                             *)
(***************************************************************************)
EXTENDS Integers, Sequences, FiniteSets, TLC

None == <<>>
Some(v) == <<v>>
Val(x) == x[1]

Abs(x) == IF x < 0 THEN -x ELSE x

RECURSIVE Sum(_)
Sum(s) == IF s = <<>> THEN 0 ELSE Head(s) + Sum(Tail(s))

(***************************************************************************)
(* CONFIG                                                                  *)
(***************************************************************************)
CURRENCIES == <<"BTC", "ETH">>
Cur == {CURRENCIES[k] : k \in 1..Len(CURRENCIES)}

EVENT_NAME == "deribit_vbi_snapshot"
HEARTBEAT_NAME == "deribit_vbi_heartbeat"

IV_SLOPE_STRONG == 6
IV_SLOPE_MEDIUM == 3

\* SKEW_NEUTRAL_BAND = 0.05 and SKEW_EXTREME_BAND = 0.15, in hundredths
SKEW_NEUTRAL_BAND == 5
SKEW_EXTREME_BAND == 15
BAND_SCALE == 100

PATTERN_WINDOW == 3

\* the alert threshold of main: degraded_cycles[c] >= 3
ALERT_CYCLES == 3

\* get_json's default retries
RETRIES == 3

\* one day in the model's time unit (hours)
DAY == 24

NEAR_DTE_RANGE == <<3, 14>>
MID_DTE_RANGE == <<14, 45>>
FAR_DTE_RANGE == <<45, 120>>

(***************************************************************************)
(* DERIBIT API: get_json and its three callers.                            *)
(*                                                                         *)
(* The provider is a script: the responses it gives to the successive      *)
(* attempts of one get_json call.  A response is                           *)
(*   [kind |-> "ok", result |-> r]   HTTP 200, JSON with a "result"        *)
(*   [kind |-> "http_error"]         session.get or raise_for_status raise *)
(*   [kind |-> "error"]              HTTP 200, JSON with an "error" field  *)
(* jitter[k] is random.uniform(0, 0.5) of the k-th sleep, in tenths of a   *)
(* second.                                                                 *)
(***************************************************************************)
RespOk(r) == [kind |-> "ok", result |-> r]
RespHttpError == [kind |-> "http_error"]
RespError == [kind |-> "error"]

\* 2 ** attempt
RECURSIVE Pow2(_)
Pow2(n) == IF n = 0 THEN 1 ELSE 2 * Pow2(n - 1)

\* time.sleep(1.5 * (2 ** attempt) + random.uniform(0, 0.5)), tenths of a second
Backoff(attempt, jit) == 15 * Pow2(attempt) + jit

\* get_json without the `"error" in j` test: a JSON answer with an "error"
\* field is read like any other, and has no "result" to give
RECURSIVE GetJsonFromUnchecked(_, _, _, _, _)
GetJsonFromUnchecked(script, jitter, retries, attempt, sleeps) ==
  IF attempt >= retries
  THEN [status |-> "returned", result |-> None, attempts |-> attempt, sleeps |-> sleeps]
  ELSE LET r == script[attempt + 1] IN
       IF r.kind = "ok"
       THEN [status |-> "returned", result |-> r.result,
             attempts |-> attempt + 1, sleeps |-> sleeps]
       ELSE IF r.kind = "error"
       THEN [status |-> "returned", result |-> None,
             attempts |-> attempt + 1, sleeps |-> sleeps]
       ELSE IF attempt = retries - 1
       THEN [status |-> "raised", result |-> None,
             attempts |-> attempt + 1, sleeps |-> sleeps]
       ELSE GetJsonFromUnchecked(script, jitter, retries, attempt + 1,
                                 Append(sleeps, Backoff(attempt, jitter[attempt + 1])))

\* One pass of the loop body for `attempt` and the passes after it.  The
\* result tells how the call ended ("returned" with its result, or "raised"),
\* how many attempts were made and the sleeps taken.
RECURSIVE GetJsonFrom(_, _, _, _, _)
GetJsonFrom(script, jitter, retries, attempt, sleeps) ==
  IF attempt >= retries
  THEN \* range(retries) is exhausted (retries <= 0): the function falls off
       \* its end and returns None
       [status |-> "returned", result |-> None, attempts |-> attempt, sleeps |-> sleeps]
  ELSE LET r == script[attempt + 1] IN
       IF r.kind = "ok"
       THEN [status |-> "returned", result |-> r.result,
             attempts |-> attempt + 1, sleeps |-> sleeps]
       ELSE IF attempt = retries - 1
       THEN [status |-> "raised", result |-> None,
             attempts |-> attempt + 1, sleeps |-> sleeps]
       ELSE GetJsonFrom(script, jitter, retries, attempt + 1,
                        Append(sleeps, Backoff(attempt, jitter[attempt + 1])))

GetJson(script, jitter, retries) == GetJsonFrom(script, jitter, retries, 0, <<>>)

(***************************************************************************)
(* FLOATS                                                                  *)
(*                                                                         *)
(* dte_days and the skew are float quotients of two numbers, which the     *)
(* model keeps as integers p and c.  The double p / c is the quotient      *)
(* rounded to 53 significant bits, to the nearest, ties to the even        *)
(* mantissa.  FloatDiv(p, c) is that double, kept as the exact quotient    *)
(* and what the rounding added to it:                                      *)
(*   e      floor(log2(p / c)), the exponent of the double                 *)
(*   scale  the number C of the long division, with 1 <= P / C < 2         *)
(*   num    the double is p / c + (num / scale) * 2^(e - MANT_BITS)        *)
(*   low    the mantissa of the double modulo LOW_MOD                      *)
(***************************************************************************)
\* the bits of a double's mantissa after the leading one
MANT_BITS == 52

\* the low mantissa bits that FloatDiv keeps: enough for a difference that
\* is rounded again to lose up to 11 of them
LOW_MOD == 4096

\* floor(log2(p / c)) for p >= c > 0, counting up from e
RECURSIVE Log2Up(_, _, _)
Log2Up(p, c, e) == IF 2 * c * Pow2(e) <= p THEN Log2Up(p, c, e + 1) ELSE e

\* floor(log2(p / c)) for 0 < p < c, counting down from -n
RECURSIVE Log2Down(_, _, _)
Log2Down(p, c, n) == IF p * Pow2(n) >= c THEN -n ELSE Log2Down(p, c, n + 1)

Log2Floor(p, c) == IF p >= c THEN Log2Up(p, c, 0) ELSE Log2Down(p, c, 1)

\* the long division makes the mantissa CHUNK_BITS bits at a time
CHUNK_BITS == 13

\* CHUNK_BITS more bits of the long division by C: s is the remainder so far
\* and the low bits of the mantissa so far
FloatChunk(s, C) ==
  << (s[1] * Pow2(CHUNK_BITS)) % C,
     (s[2] * Pow2(CHUNK_BITS) + (s[1] * Pow2(CHUNK_BITS)) \div C) % LOW_MOD >>

\* the MANT_BITS bits after the leading one, of the long division of the
\* remainder r by C: the remainder left and the low bits of the mantissa
FloatBits(r, C) == FloatChunk(FloatChunk(FloatChunk(FloatChunk(<<r, 1>>, C), C), C), C)

\* the double of exponent e whose long division by C left the remainder
\* b[1] after the mantissa of low bits b[2]: the mantissa goes up by one when
\* more than half a last place is left, or just half and it is odd
FloatRounded(e, C, b) ==
  LET up == 2 * b[1] > C \/ (2 * b[1] = C /\ b[2] % 2 = 1)
  IN [e |-> e, scale |-> C,
      num |-> IF up THEN C - b[1] ELSE -b[1],
      low |-> (b[2] + (IF up THEN 1 ELSE 0)) % LOW_MOD]

\* the double P / C of exponent e, with 1 <= P / C < 2 (an exact quotient is
\* one with at most 12 bits after the binary point: a double as it is)
FloatFrom(e, P, C, exact) ==
  IF exact THEN [e |-> e, scale |-> C, num |-> 0, low |-> 0]
  ELSE FloatRounded(e, C, FloatBits(P - C, C))

\* the double p / c of exponent e
FloatAt(p, c, e) ==
  FloatFrom(e, IF e >= 0 THEN p ELSE p * Pow2(-e), IF e >= 0 THEN c * Pow2(e) ELSE c,
            (p * LOW_MOD) % c = 0)

\* the double p / c, for integers p > 0 and c > 0
FloatDiv(p, c) == FloatAt(p, c, Log2Floor(p, c))

\* what the rounding added to a is less than what it added to b
ErrLess(a, b) ==
  LET m == IF a.e <= b.e THEN a.e ELSE b.e
  IN a.num * Pow2(a.e - m) * b.scale < b.num * Pow2(b.e - m) * a.scale

(***************************************************************************)
(* OPTION HELPERS                                                          *)
(*                                                                         *)
(* An instrument is [instrument_name, expiration_timestamp, option_type,   *)
(* strike].  dte_days reads the wall clock on every call: clock is the     *)
(* sequence of the successive readings of now_ts_ms() (the last one is     *)
(* repeated when more readings are taken than the sequence holds).         *)
(***************************************************************************)
ClockAt(clock, k) == IF k <= Len(clock) THEN clock[k] ELSE clock[Len(clock)]

\* dte_days(exp_ts) * DAY, read at clock reading k: the day-to-expiry stays a
\* numerator over DAY so that no division is rounded
DteNum(exp_ts, clock, k) == exp_ts - ClockAt(clock, k)

\* range[0] <= dte <= range[1]
InRange(range, dte_num) == range[1] * DAY <= dte_num /\ dte_num <= range[2] * DAY

\* the bucket the k-th instrument of options goes to (the if/elif chain)
BucketOf(options, clock, k) ==
  LET dte == DteNum(options[k].expiration_timestamp, clock, k) IN
  IF InRange(NEAR_DTE_RANGE, dte) THEN "near"
  ELSE IF InRange(MID_DTE_RANGE, dte) THEN "mid"
  ELSE IF InRange(FAR_DTE_RANGE, dte) THEN "far"
  ELSE "none"

\* buckets[name]: the expiration timestamps appended, in list order
RECURSIVE BucketFrom(_, _, _, _)
BucketFrom(options, clock, name, k) ==
  IF k > Len(options) THEN <<>>
  ELSE IF BucketOf(options, clock, k) = name
       THEN <<options[k].expiration_timestamp>> \o BucketFrom(options, clock, name, k + 1)
       ELSE BucketFrom(options, clock, name, k + 1)

Bucket(options, clock, name) == BucketFrom(options, clock, name, 1)

\* the key of a pick is counted in units of 2^-SUB_DAY_BITS of the last
\* place of a dte of one day: a dte of an hour or more has its last place
\* there or above
SUB_DAY_BITS == 5

\* What the floats add to the exact abs(dte - mid), in units of
\* 1 / (DAY * 2^(MANT_BITS + SUB_DAY_BITS)) day, for the double f of the dte,
\* the sign s of dte - mid and the exponent er of the difference: the
\* rounding of the quotient in dte_days, and the rounding of the difference
\* when it has a greater exponent than the dte (a multiple of G last places
\* of the dte is kept, the nearest one, ties to the even).  mid is a multiple
\* of half a day.
KeyRounded(f, s, er) ==
  LET G    == IF er > f.e THEN Pow2(er - f.e) ELSE 1
      k    == IF s = 1 THEN f.low % (2 * G) ELSE (2 * G - (f.low % (2 * G))) % (2 * G)
      lowk == k % G
      rho  == IF 2 * lowk < G THEN -lowk
              ELSE IF 2 * lowk > G THEN G - lowk
              ELSE IF k >= G THEN G - lowk ELSE -lowk
  IN s * f.num * Pow2(SUB_DAY_BITS + (IF f.e < 0 THEN f.e ELSE 0))
     + rho * DAY * Pow2(f.e + SUB_DAY_BITS)

\* off is twice the exact dte - mid, in hours.  A dte that is a double as it
\* is (FloatFrom) has an exact difference to mid: the floats add nothing.  A
\* dte of 0 or less is not met in a pick: the instrument had a dte of 3 days
\* or more when the buckets were filled.
KeyErrAt(dte_num, off) ==
  IF dte_num <= 0 \/ off = 0 \/ (dte_num * LOW_MOD) % DAY = 0 THEN 0
  ELSE KeyRounded(FloatDiv(dte_num, DAY), IF off > 0 THEN 1 ELSE -1,
                  Log2Floor(Abs(off), 2 * DAY))

\* what the floats add to abs(dte_days(ts) - mid) for a dte of dte_num hours
KeyErr(dte_num, target) == KeyErrAt(dte_num, 2 * dte_num - (target[1] + target[2]) * DAY)

\* abs(dte_days(ts) - mid) with mid = sum(target) / 2, for the j-th candidate
\* of a pick whose first clock reading is number base + 1: the pair of the
\* exact distance times 2 * DAY and of what the floats add to it
PickKey(ts_list, target, clock, base, j) ==
  LET dte == DteNum(ts_list[j], clock, base + j)
  IN << Abs(2 * dte - (target[1] + target[2]) * DAY), KeyErr(dte, target) >>

\* key a < key b: what the floats add is far less than a unit of the exact
\* distance, and tells two keys of the same exact distance apart
KeyLess(a, b) == a[1] < b[1] \/ (a[1] = b[1] /\ a[2] < b[2])

\* the first index whose key is minimal
FirstMin(keys) ==
  CHOOSE j \in 1..Len(keys) :
    /\ \A i \in 1..Len(keys) : ~KeyLess(keys[i], keys[j])
    /\ \A i \in 1..(j - 1) : KeyLess(keys[j], keys[i])

\* the keys of the candidates from the j-th on, each computed once, in list
\* order
RECURSIVE PickKeysFrom(_, _, _, _, _)
PickKeysFrom(ts_list, target, clock, base, j) ==
  IF j > Len(ts_list) THEN <<>>
  ELSE <<PickKey(ts_list, target, clock, base, j)>>
       \o PickKeysFrom(ts_list, target, clock, base, j + 1)

\* min(ts_list, key=...): the first element whose key is minimal
PickIndex(ts_list, target, clock, base) ==
  FirstMin(PickKeysFrom(ts_list, target, clock, base, 1))

Pick(ts_list, target, clock, base) ==
  IF ts_list = <<>> THEN None
  ELSE Some(ts_list[PickIndex(ts_list, target, clock, base)])

\* returns <<near, mid, far>>, each None or Some(expiration timestamp)
PickRollingExpiries(options, clock) ==
  LET near == Bucket(options, clock, "near")
      mid  == Bucket(options, clock, "mid")
      far  == Bucket(options, clock, "far")
      n    == Len(options)
  IN << Pick(near, NEAR_DTE_RANGE, clock, n),
        Pick(mid, MID_DTE_RANGE, clock, n + Len(near)),
        Pick(far, FAR_DTE_RANGE, clock, n + Len(near) + Len(mid)) >>

\* cands that are filtered by the expiry alone
AtmCandsAnySide(options, exp, opt_type) ==
  {k \in 1..Len(options) : options[k].expiration_timestamp = exp}

\* cands of atm_option: the indexes of the matching instruments, ascending
AtmCands(options, exp, opt_type) ==
  {k \in 1..Len(options) :
     options[k].expiration_timestamp = exp /\ options[k].option_type = opt_type}

\* min(cands, key=abs(strike - spot)) if cands else None
AtmOption(options, exp, opt_type, spot) ==
  LET cands == AtmCands(options, exp, opt_type) IN
  IF cands = {} THEN None
  ELSE Some(options[CHOOSE j \in cands :
              /\ \A i \in cands : Abs(options[j].strike - spot) <= Abs(options[i].strike - spot)
              /\ \A i \in cands : i < j => Abs(options[i].strike - spot) > Abs(options[j].strike - spot)])

(***************************************************************************)
(* The three callers of get_json.  A feed is what the provider answers     *)
(* during one compute_vbi call:                                            *)
(*   options  the script of the get_instruments call (result: a list of    *)
(*            instruments)                                                 *)
(*   spot     the script of the get_index_price call (result:              *)
(*            [index_price |-> p])                                         *)
(*   books    the scripts of the get_book_summary_by_instrument calls, in  *)
(*            call order (result: a list holding no or one book            *)
(*            [mark_iv |-> None or Some(iv)])                              *)
(*   jitter   the random part of the sleeps                                *)
(*   clock    the readings of now_ts_ms()                                  *)
(* A call's outcome is [raised, value].                                    *)
(***************************************************************************)
GetOptions(feed) ==
  LET r == GetJson(feed.options, feed.jitter, RETRIES) IN
  [raised |-> r.status = "raised", value |-> r.result]

GetIndexPrice(feed) ==
  LET r == GetJson(feed.spot, feed.jitter, RETRIES) IN
  [raised |-> r.status = "raised",
   value |-> IF r.status = "raised" THEN None ELSE r.result.index_price]

\* get_book returning d[0] whatever d is: an empty list raises IndexError
GetBookUnguarded(feed, k) ==
  LET r == GetJson(feed.books[k], feed.jitter, RETRIES) IN
  [raised |-> r.status = "raised" \/ r.result = <<>>,
   value |-> IF r.status = "raised" \/ r.result = <<>> THEN None ELSE Some(r.result[1])]

\* d[0] if d else None
GetBook(feed, k) ==
  LET r == GetJson(feed.books[k], feed.jitter, RETRIES) IN
  [raised |-> r.status = "raised",
   value |-> IF r.status = "raised" \/ r.result = <<>> THEN None ELSE Some(r.result[1])]

(***************************************************************************)
(* VBI CORE                                                                *)
(***************************************************************************)
degraded(currency, reason) ==
  [symbol |-> currency, status |-> "degraded", reason |-> reason,
   vbi_state |-> "DEGRADED", vbi_score |-> None]

\* a list in place of the deque: nothing is ever dropped
ListAppend(q, v) == Append(q, v)

\* deque(maxlen=PATTERN_WINDOW).append(v): a full deque drops its oldest item
DequeAppend(q, v) ==
  IF Len(q) >= PATTERN_WINDOW THEN Append(Tail(q), v) ELSE Append(q, v)

\* skew = np["mark_iv"] / nc["mark_iv"] if nc["mark_iv"] else None, kept as
\* the fraction <<put iv, call iv>>
Skew(np_iv, nc_iv) == IF nc_iv # 0 THEN Some(<<np_iv, nc_iv>>) ELSE None

\* What the floats make of abs(skew - 1.0) when skew - 1 is exactly a band
\* wide (the subtraction of 1.0 is exact there): the double of the skew with
\* its rounding counted away from 1
SkewDevOf(skew, f) ==
  IF Val(skew)[1] < Val(skew)[2] THEN [f EXCEPT !.num = -f.num] ELSE f
SkewDev(skew) == SkewDevOf(skew, FloatDiv(Val(skew)[1], Val(skew)[2]))

\* abs(skew - 1.0) < band / BAND_SCALE, and > band / BAND_SCALE: the exact
\* comparison, and on the edge of the band that of the two doubles (the band
\* is the double band / BAND_SCALE)
SkewWithin(skew, band) ==
  LET d == Abs(Val(skew)[1] - Val(skew)[2]) * BAND_SCALE
      b == band * Abs(Val(skew)[2])
  IN d < b \/ (d = b /\ ErrLess(SkewDev(skew), FloatDiv(band, BAND_SCALE)))
SkewBeyond(skew, band) ==
  LET d == Abs(Val(skew)[1] - Val(skew)[2]) * BAND_SCALE
      b == band * Abs(Val(skew)[2])
  IN d > b \/ (d = b /\ ErrLess(FloatDiv(band, BAND_SCALE), SkewDev(skew)))

\* round(skew, 3) if skew else None, in thousandths (ivs are not negative):
\* the nearest thousandth of the double; a skew half way between two goes
\* to the side its double lies on, and to the even one when they are equal
RoundSkew(skew) ==
  IF skew = None \/ Val(skew)[1] = 0 THEN None
  ELSE LET num == 1000 * Val(skew)[1]
           den == Val(skew)[2]
           q   == num \div den
           r2  == 2 * (num % den)
           err == IF r2 = den THEN FloatDiv(Val(skew)[1], Val(skew)[2]).num ELSE 0
       IN Some(IF r2 > den \/ (r2 = den /\ (err > 0 \/ (err = 0 /\ q % 2 = 1)))
               THEN q + 1 ELSE q)

\* the score with the history rule firing one entry early
RawScoreEarly(iv_slope, near_iv, near_hist, skew) ==
  (IF iv_slope > IV_SLOPE_MEDIUM THEN 40 ELSE 0)
  + (IF iv_slope > IV_SLOPE_STRONG THEN 20 ELSE 0)
  + (IF Len(near_hist) >= PATTERN_WINDOW - 1 /\ near_iv * Len(near_hist) > Sum(near_hist)
     THEN 20 ELSE 0)
  + (IF skew # None /\ SkewWithin(skew, SKEW_NEUTRAL_BAND) THEN 10 ELSE 0)
  - (IF skew # None /\ SkewBeyond(skew, SKEW_EXTREME_BAND) THEN 10 ELSE 0)

\* the score with an absent skew counted as the skew 0
RawScoreNoSkewAsZero(iv_slope, near_iv, near_hist, skew) ==
  (IF iv_slope > IV_SLOPE_MEDIUM THEN 40 ELSE 0)
  + (IF iv_slope > IV_SLOPE_STRONG THEN 20 ELSE 0)
  + (IF Len(near_hist) >= PATTERN_WINDOW /\ near_iv * Len(near_hist) > Sum(near_hist)
     THEN 20 ELSE 0)
  + (IF skew # None /\ SkewWithin(skew, SKEW_NEUTRAL_BAND) THEN 10 ELSE 0)
  - (IF skew = None \/ SkewBeyond(skew, SKEW_EXTREME_BAND) THEN 10 ELSE 0)

\* the score before the clamp
RawScore(iv_slope, near_iv, near_hist, skew) ==
  (IF iv_slope > IV_SLOPE_MEDIUM THEN 40 ELSE 0)
  + (IF iv_slope > IV_SLOPE_STRONG THEN 20 ELSE 0)
  + (IF Len(near_hist) >= PATTERN_WINDOW /\ near_iv * Len(near_hist) > Sum(near_hist)
     THEN 20 ELSE 0)
  + (IF skew # None /\ SkewWithin(skew, SKEW_NEUTRAL_BAND) THEN 10 ELSE 0)
  - (IF skew # None /\ SkewBeyond(skew, SKEW_EXTREME_BAND) THEN 10 ELSE 0)

Min2(a, b) == IF a <= b THEN a ELSE b
Max2(a, b) == IF a >= b THEN a ELSE b

\* the clamp without its floor
ClampNoFloor(score) == Min2(score, 100)

\* score = max(0, min(score, 100))
Clamp(score) == Max2(0, Min2(score, 100))

\* the labelling with `score < 60` for WARM
VbiStateStrict(score) == IF score < 30 THEN "COLD" ELSE IF score < 60 THEN "WARM" ELSE "HOT"

\* "COLD" if score < 30 else "WARM" if score <= 60 else "HOT"
VbiState(score) == IF score < 30 THEN "COLD" ELSE IF score <= 60 THEN "WARM" ELSE "HOT"

\* What the try block of compute_vbi ends with: a returned result or a raised
\* exception, the two histories of the currency as the block leaves them, and
\* the provider calls it made.
Ended(raised, out, slope_hist, near_hist, fetched) ==
  [raised |-> raised, out |-> out, iv_slope_hist |-> slope_hist,
   near_iv_hist |-> near_hist, fetched |-> fetched]

CallOptions(currency) == <<"public/get_instruments", currency>>
CallSpot(currency) == <<"public/get_index_price", currency>>
CallBook(instr) == <<"public/get_book_summary_by_instrument", Val(instr).instrument_name>>

\* lines 251-309: the four books are present.  The ivs are integers, which
\* round(x, 2) leaves as they are.
ScoreBooks(currency, nc, np, mc, fc, slope_hist, near_hist, fetched) ==
  LET near_iv == Val(nc).mark_iv
      mid_iv  == Val(mc).mark_iv
      far_iv  == Val(fc).mark_iv
  IN
  IF near_iv = None \/ mid_iv = None \/ far_iv = None
  THEN Ended(FALSE, degraded(currency, "no_iv"), slope_hist, near_hist, fetched)
  ELSE
  LET slope_1   == Val(mid_iv) - Val(near_iv)
      slope_2   == Val(far_iv) - Val(mid_iv)
      iv_slope  == slope_1
      curvature == slope_2 - slope_1
  IN
  IF Val(near_iv) # 0 /\ Val(np).mark_iv = None
  THEN \* None / number: TypeError
       Ended(TRUE, None, slope_hist, near_hist, fetched)
  ELSE
  LET skew    == IF Val(near_iv) # 0 THEN Skew(Val(Val(np).mark_iv), Val(near_iv)) ELSE None
      slope_h == DequeAppend(slope_hist, iv_slope)
      near_h  == DequeAppend(near_hist, Val(near_iv))
      score   == Clamp(RawScore(iv_slope, Val(near_iv), near_h, skew))
  IN Ended(FALSE,
           [symbol |-> currency, status |-> "ok",
            vbi_state |-> VbiState(score), vbi_score |-> score,
            near_iv |-> Val(near_iv), mid_iv |-> Val(mid_iv), far_iv |-> Val(far_iv),
            iv_slope |-> iv_slope, curvature |-> curvature,
            skew |-> RoundSkew(skew)],
           slope_h, near_h, fetched)

\* lines 243-249: the four get_book calls, then the no_book test
FetchBooks(currency, feed, n_call, n_put, m_call, f_call, slope_hist, near_hist, fetched) ==
  LET nc == GetBook(feed, 1)
      np == GetBook(feed, 2)
      mc == GetBook(feed, 3)
      fc == GetBook(feed, 4)
      f1 == Append(fetched, CallBook(n_call))
      f2 == Append(f1, CallBook(n_put))
      f3 == Append(f2, CallBook(m_call))
      f4 == Append(f3, CallBook(f_call))
  IN
  IF nc.raised THEN Ended(TRUE, None, slope_hist, near_hist, f1)
  ELSE IF np.raised THEN Ended(TRUE, None, slope_hist, near_hist, f2)
  ELSE IF mc.raised THEN Ended(TRUE, None, slope_hist, near_hist, f3)
  ELSE IF fc.raised THEN Ended(TRUE, None, slope_hist, near_hist, f4)
  ELSE IF nc.value = None \/ np.value = None \/ mc.value = None \/ fc.value = None
  THEN Ended(FALSE, degraded(currency, "no_book"), slope_hist, near_hist, f4)
  ELSE ScoreBooks(currency, nc.value, np.value, mc.value, fc.value,
                  slope_hist, near_hist, f4)

\* lines 228-241: the two fetches, the ladder and the four ATM selections
TryBlock(currency, feed, slope_hist, near_hist) ==
  LET options == GetOptions(feed)
      f1      == <<CallOptions(currency)>>
  IN
  IF options.raised THEN Ended(TRUE, None, slope_hist, near_hist, f1)
  ELSE
  LET spot == GetIndexPrice(feed)
      f2   == Append(f1, CallSpot(currency))
  IN
  IF spot.raised THEN Ended(TRUE, None, slope_hist, near_hist, f2)
  ELSE
  LET exps == PickRollingExpiries(options.value, feed.clock) IN
  IF exps[1] = None \/ exps[2] = None \/ exps[3] = None
  THEN Ended(FALSE, degraded(currency, "no_expiries"), slope_hist, near_hist, f2)
  ELSE
  LET n_call == AtmOption(options.value, Val(exps[1]), "call", spot.value)
      n_put  == AtmOption(options.value, Val(exps[1]), "put", spot.value)
      m_call == AtmOption(options.value, Val(exps[2]), "call", spot.value)
      f_call == AtmOption(options.value, Val(exps[3]), "call", spot.value)
  IN
  IF n_call = None \/ n_put = None \/ m_call = None \/ f_call = None
  THEN Ended(FALSE, degraded(currency, "no_atm"), slope_hist, near_hist, f2)
  ELSE FetchBooks(currency, feed, n_call, n_put, m_call, f_call,
                  slope_hist, near_hist, f2)

\* compute_vbi without its except clause
ExceptNothing(currency, ended) == ended

\* an except clause that also empties the two histories of the currency
ExceptClearing(currency, ended) ==
  IF ended.raised
  THEN [ended EXCEPT !.raised = FALSE, !.out = degraded(currency, "exception"),
                     !.iv_slope_hist = <<>>, !.near_iv_hist = <<>>]
  ELSE ended

\* except Exception: return degraded(currency, "exception")
Except(currency, ended) ==
  IF ended.raised
  THEN [ended EXCEPT !.raised = FALSE, !.out = degraded(currency, "exception")]
  ELSE ended

\* compute_vbi(currency) on the histories slope_hist and near_hist of the
\* currency
ComputeVbi(currency, feed, slope_hist, near_hist) ==
  Except(currency, TryBlock(currency, feed, slope_hist, near_hist))

(***************************************************************************)
(* SUPABASE and Telegram.  post is what the HTTP post does: "ok" or        *)
(* "error" (requests.post or raise_for_status raises).  Both functions     *)
(* catch what the post raises; the result tells whether the call raised    *)
(* and what became of the message.                                         *)
(***************************************************************************)
\* a send_to_db that lets what the post raises through
SendToDbUncaught(env_set, post) ==
  IF ~env_set THEN [raised |-> FALSE, status |-> "skipped"]
  ELSE IF post = "ok" THEN [raised |-> FALSE, status |-> "posted"]
  ELSE [raised |-> TRUE, status |-> "failed"]

SendToDb(env_set, post) ==
  IF ~env_set THEN [raised |-> FALSE, status |-> "skipped"]
  ELSE IF post = "ok" THEN [raised |-> FALSE, status |-> "posted"]
  ELSE [raised |-> FALSE, status |-> "failed"]

\* a send_telegram_alert that lets what the post raises through
SendTelegramAlertUncaught(env_set, post) ==
  IF ~env_set THEN [raised |-> FALSE, status |-> "skipped"]
  ELSE IF post = "ok" THEN [raised |-> FALSE, status |-> "sent"]
  ELSE [raised |-> TRUE, status |-> "failed"]

SendTelegramAlert(env_set, post) ==
  IF ~env_set THEN [raised |-> FALSE, status |-> "skipped"]
  ELSE IF post = "ok" THEN [raised |-> FALSE, status |-> "sent"]
  ELSE [raised |-> FALSE, status |-> "failed"]

\* a counter that an ok result leaves as it is
RecoveredCountKept(n) == n

\* the counter update of main for a degraded result, and for any other
DegradedCount(n) == n + 1
RecoveredCount(n) == 0

\* the alert condition without the latch
AlertDueUnlatched(cycles, sent) == cycles >= ALERT_CYCLES

\* if degraded_cycles[c] >= 3 and not degraded_alert_sent[c]
AlertDue(cycles, sent) == cycles >= ALERT_CYCLES /\ ~sent

\* degraded_alert_sent[c] after a degraded result, and after any other
LatchAfterDegraded(cycles, sent) == IF AlertDue(cycles, sent) THEN TRUE ELSE sent
LatchAfterOk(sent) == FALSE

(***************************************************************************)
(* Bounds of the model.                                                    *)
(***************************************************************************)
\* a currency is not degraded more than MaxDegraded cycles in a row
MaxDegraded == 4

\* the ok results of a currency are counted until they outnumber the window
MaxOks == PATTERN_WINDOW + 1

(***************************************************************************)
(* The market: the feeds a compute_vbi call may meet.                      *)
(***************************************************************************)
Instr(name, exp, type, strike) ==
  [instrument_name |-> name, expiration_timestamp |-> exp,
   option_type |-> type, strike |-> strike]

\* the clock stands at hour 0 during a call
ClockStill == <<0>>

\* expiries 4, 8, 30 and 80 days ahead; the 8-day one is nearer the middle of
\* the near range than the 4-day one, and strike 110 is nearer the spot than 90
NearCalls == << Instr("4D-100-C", 4 * DAY, "call", 100),
                Instr("8D-90-C", 8 * DAY, "call", 90),
                Instr("8D-110-C", 8 * DAY, "call", 110) >>
NearPuts  == << Instr("8D-110-P", 8 * DAY, "put", 110) >>
MidCalls  == << Instr("30D-100-C", 30 * DAY, "call", 100) >>
FarCalls  == << Instr("80D-100-C", 80 * DAY, "call", 100) >>

ListingFull  == NearCalls \o NearPuts \o MidCalls \o FarCalls
ListingNoFar == NearCalls \o NearPuts \o MidCalls
ListingNoPut == NearCalls \o MidCalls \o FarCalls
ListingEmpty == <<>>

SpotPrice == [index_price |-> 104]

\* the scripts of one get_json call
Clean(r)   == <<RespOk(r), RespOk(r), RespOk(r)>>
Retried(r) == <<RespError, RespHttpError, RespOk(r)>>
Down       == <<RespHttpError, RespError, RespError>>
JitterSome == <<0, 5>>

\* the answer to one get_book call: a quote with an iv (at once, or after two
\* failed attempts), a quote whose mark_iv is null, no book, or a provider
\* that is down
BookScript(kind, iv) ==
  IF kind = "quote" THEN Clean(<<[mark_iv |-> Some(iv)]>>)
  ELSE IF kind = "retried" THEN Retried(<<[mark_iv |-> Some(iv)]>>)
  ELSE IF kind = "null" THEN Clean(<<[mark_iv |-> None]>>)
  ELSE IF kind = "absent" THEN Clean(<<>>)
  ELSE Down

BookKinds == {"quote", "retried", "null", "absent", "down"}

\* term structures <<near call iv, mid call iv, far call iv>>: one with a zero
\* near iv, one whose slope is exactly IV_SLOPE_STRONG, one whose slope is
\* exactly IV_SLOPE_MEDIUM, a steep one, one in between and an inverted one;
\* the put ivs give a skew that is
\* neutral, extreme, in between, or zero
Curves == { <<0, 2, 3>>, <<10, 16, 18>>, <<12, 15, 20>>, <<12, 20, 21>>,
            <<12, 16, 17>>, <<12, 9, 8>> }
PutIvs == { 0, 10, 11, 12 }
SteadyCurve == <<10, 16, 18>>
SteadyPut == SteadyCurve[1]

\* kinds[k] is the kind of the answer to the k-th get_book call
BooksOf(curve, put, kinds) ==
  << BookScript(kinds[1], curve[1]), BookScript(kinds[2], put),
     BookScript(kinds[3], curve[2]), BookScript(kinds[4], curve[3]) >>

Feed(options, spot, books) ==
  [options |-> options, spot |-> spot, books |-> books,
   jitter |-> JitterSome, clock |-> ClockStill]

AllQuotes == [k \in 1..4 |-> "quote"]

\* the feeds in which every fetch is answered with a quote that has an iv
QuoteFeeds(curves, puts) ==
  {Feed(Clean(ListingFull), Clean(SpotPrice), BooksOf(c, p, AllQuotes)) :
     c \in curves, p \in puts}

\* the feeds with a listing that is complete and one answer that is not a
\* plain quote
OneFlawFeeds(curves, puts) ==
  {Feed(Clean(ListingFull), Retried(SpotPrice), BooksOf(c, p, [AllQuotes EXCEPT ![k] = b])) :
     c \in curves, p \in puts, k \in 1..4, b \in BookKinds \ {"quote"}}

\* the feeds that end before a book is fetched
EarlyFeeds ==
  LET books == BooksOf(SteadyCurve, SteadyPut, AllQuotes) IN
  { Feed(Down, Clean(SpotPrice), books),
    Feed(Clean(ListingFull), Down, books),
    Feed(Retried(ListingNoFar), Clean(SpotPrice), books),
    Feed(Clean(ListingEmpty), Clean(SpotPrice), books),
    Feed(Clean(ListingNoPut), Retried(SpotPrice), books) }

\* The feeds of a currency: in a volatile market the term structure and the
\* put iv move and the provider is unreliable; in a steady market only the
\* provider is unreliable; in a calm market nothing moves and nothing fails.
VolatileFeeds ==
  QuoteFeeds(Curves, PutIvs) \cup OneFlawFeeds({SteadyCurve, <<0, 2, 3>>}, {SteadyPut})
  \cup EarlyFeeds
SteadyFeeds ==
  QuoteFeeds({SteadyCurve}, {SteadyPut}) \cup OneFlawFeeds({SteadyCurve}, {SteadyPut})
  \cup EarlyFeeds
CalmFeeds == QuoteFeeds({SteadyCurve}, {SteadyPut})

\* every combination of the kinds of the four answers, and the early ends
KindVectors == [1..4 -> BookKinds]
CallFeeds ==
  {Feed(Clean(ListingFull), Clean(SpotPrice), BooksOf(c, p, v)) :
     c \in {SteadyCurve, <<0, 2, 3>>}, p \in {SteadyPut}, v \in KindVectors}
  \cup {Feed(o, s, BooksOf(SteadyCurve, SteadyPut, v)) :
     o \in {Down, Clean(ListingNoFar), Clean(ListingNoPut), Clean(ListingEmpty)},
     s \in {Down, Clean(SpotPrice)},
     v \in {AllQuotes, [AllQuotes EXCEPT ![1] = "absent"], [AllQuotes EXCEPT ![3] = "null"],
            [AllQuotes EXCEPT ![2] = "down"]}}
  \cup {Feed(Clean(ListingFull), Down, BooksOf(SteadyCurve, SteadyPut, v)) :
     v \in {AllQuotes, [AllQuotes EXCEPT ![1] = "absent"], [AllQuotes EXCEPT ![3] = "null"],
            [AllQuotes EXCEPT ![2] = "down"]}}

(***************************************************************************)
(* STATE                                                                   *)
(***************************************************************************)
VARIABLES
  iv_slope_hist,        \* iv_slope_hist[c]: the deque of the last iv slopes of c
  near_iv_hist,         \* near_iv_hist[c]: the deque of the last near ivs of c
  degraded_cycles,      \* degraded_cycles[c]
  degraded_alert_sent,  \* degraded_alert_sent[c]
  pc,                   \* where main stands: "for", "heartbeat", "sleep", "crashed"
  i,                    \* the index in CURRENCIES of the next currency of the for loop
  out,                  \* the result of the latest compute_vbi call of main
  sink,                 \* the events handed to send_to_db since the cycle started
  db_status,            \* what became of the latest event handed to send_to_db
  alert,                \* the alert of the latest loop iteration, None or Some(alert)
  SUPABASE_SET,         \* SUPABASE_URL and SUPABASE_KEY are both set
  TELEGRAM_SET,         \* TG_BOT_TOKEN and TG_CHAT_ID are both set
  market,               \* market[c]: the kind of market of c (which feeds it gives)
  run,                  \* run[c]: the degraded results of c in a row, up to the latest
  computed,             \* the currencies compute_vbi was called for since the cycle started
  oks,                  \* oks[c]: the ok results of c since the start (up to MaxOks)
  call,                 \* a call on its own: its arguments, or None
  ret                   \* and how that call ended, or None

vars == << iv_slope_hist, near_iv_hist, degraded_cycles, degraded_alert_sent,
           pc, i, out, sink, db_status, alert, SUPABASE_SET, TELEGRAM_SET,
           market, run, computed, oks, call, ret >>

NoOut == [status |-> "none"]

MarketFeeds(kind) ==
  IF kind = "volatile" THEN VolatileFeeds
  ELSE IF kind = "steady" THEN SteadyFeeds
  ELSE CalmFeeds

\* what an HTTP post may do, when one is made
PostOutcomes(made) == IF made THEN {"ok", "error"} ELSE {"none"}

\* the state of the module after import, before main runs
InitState ==
  /\ iv_slope_hist = [c \in Cur |-> <<>>]
  /\ near_iv_hist = [c \in Cur |-> <<>>]
  /\ degraded_cycles = [c \in Cur |-> 0]
  /\ degraded_alert_sent = [c \in Cur |-> FALSE]
  /\ pc = "for"
  /\ i = 1
  /\ out = NoOut
  /\ sink = <<>>
  /\ db_status = "none"
  /\ alert = None
  /\ run = [c \in Cur |-> 0]
  /\ computed = <<>>
  /\ oks = [c \in Cur |-> 0]

\* the service with an unreliable provider for every currency
Init ==
  /\ InitState
  /\ SUPABASE_SET \in BOOLEAN
  /\ TELEGRAM_SET \in BOOLEAN
  /\ market = [c \in Cur |-> "steady"]
  /\ call = None
  /\ ret = None

\* the service with one currency in a volatile market, the others in a calm one
InitVbi ==
  /\ InitState
  /\ SUPABASE_SET = FALSE
  /\ TELEGRAM_SET = TRUE
  /\ \E v \in Cur : market = [c \in Cur |-> IF c = v THEN "volatile" ELSE "calm"]
  /\ call = None
  /\ ret = None

\* the event main hands to send_to_db: its name and the payload's symbol and status
Event(event, payload) == [event |-> event, symbol |-> payload.symbol, status |-> payload.status]

Heartbeat == [symbol |-> "SYSTEM", status |-> "alive"]

\* the alert text: currency, cycles and reason
AlertText(c, cycles, reason) == [symbol |-> c, cycles |-> cycles, reason |-> reason]

(***************************************************************************)
(* MAIN: one iteration of `for c in CURRENCIES` (lines 343-364).           *)
(***************************************************************************)
\* lines 348-364, after send_to_db returned
Counters(c, r, tg_post) ==
  /\ run' = [run EXCEPT ![c] = IF r.out.status = "degraded" THEN @ + 1 ELSE 0]
  /\ oks' = [oks EXCEPT ![c] = IF r.out.status = "ok" THEN Min2(@ + 1, MaxOks) ELSE @]
  /\ IF r.out.status = "degraded"
     THEN LET cycles == DegradedCount(degraded_cycles[c])
              due    == AlertDue(cycles, degraded_alert_sent[c])
              tg     == SendTelegramAlert(TELEGRAM_SET, tg_post)
          IN /\ degraded_cycles' = [degraded_cycles EXCEPT ![c] = cycles]
             /\ alert' = IF due
                         THEN Some([text |-> AlertText(c, cycles, r.out.reason),
                                    status |-> tg.status])
                         ELSE None
             /\ IF due /\ tg.raised
                THEN /\ pc' = "crashed"
                     /\ UNCHANGED << degraded_alert_sent, i >>
                ELSE /\ degraded_alert_sent' =
                          [degraded_alert_sent EXCEPT ![c] = LatchAfterDegraded(cycles, @)]
                     /\ i' = i + 1
                     /\ pc' = IF i = Len(CURRENCIES) THEN "heartbeat" ELSE "for"
     ELSE /\ degraded_cycles' = [degraded_cycles EXCEPT ![c] = RecoveredCount(@)]
          /\ degraded_alert_sent' = [degraded_alert_sent EXCEPT ![c] = LatchAfterOk(@)]
          /\ alert' = None
          /\ i' = i + 1
          /\ pc' = IF i = Len(CURRENCIES) THEN "heartbeat" ELSE "for"

\* one deque that every currency key shares
SharedHist(hist, c, h) == [d \in DOMAIN hist |-> h]

\* the histories are dicts keyed by currency: the call for c leaves
\* iv_slope_hist[c] and near_iv_hist[c] as h, and those two only
KeyedHist(hist, c, h) == [hist EXCEPT ![c] = h]

\* r is what compute_vbi(c) ended with, post and tg_post what the posts to the
\* sink and to Telegram do
Iteration(c, r, post, tg_post) ==
  LET db == SendToDb(SUPABASE_SET, post) IN
  /\ iv_slope_hist' = KeyedHist(iv_slope_hist, c, r.iv_slope_hist)
  /\ near_iv_hist' = KeyedHist(near_iv_hist, c, r.near_iv_hist)
  /\ computed' = Append(computed, c)
  /\ IF r.raised
     THEN \* compute_vbi raised: main has no handler
          /\ pc' = "crashed"
          /\ UNCHANGED << degraded_cycles, degraded_alert_sent, i, out, sink,
                          db_status, alert, run, oks >>
     ELSE
     /\ out' = r.out
     /\ sink' = Append(sink, Event(EVENT_NAME, r.out))
     /\ db_status' = db.status
     /\ IF db.raised
        THEN /\ pc' = "crashed"
             /\ UNCHANGED << degraded_cycles, degraded_alert_sent, i, alert, run, oks >>
        ELSE Counters(c, r, tg_post)

\* (r ranges over the one result of the call, so that it is computed once)
ProcessCurrency ==
  /\ pc = "for"
  /\ \E feed \in MarketFeeds(market[CURRENCIES[i]]) :
     \E r \in {ComputeVbi(CURRENCIES[i], feed, iv_slope_hist[CURRENCIES[i]],
                          near_iv_hist[CURRENCIES[i]])} :
     \* the provider does not fail a currency more than MaxDegraded cycles in a row
     /\ (~r.raised /\ r.out.status = "degraded") =>
          DegradedCount(degraded_cycles[CURRENCIES[i]]) <= MaxDegraded
     /\ \E post \in PostOutcomes(~r.raised /\ SUPABASE_SET) :
        \E tg_post \in PostOutcomes(/\ ~r.raised
                                    /\ r.out.status = "degraded"
                                    /\ TELEGRAM_SET
                                    /\ AlertDue(DegradedCount(degraded_cycles[CURRENCIES[i]]),
                                                degraded_alert_sent[CURRENCIES[i]])) :
          Iteration(CURRENCIES[i], r, post, tg_post)
  /\ UNCHANGED << SUPABASE_SET, TELEGRAM_SET, market, call, ret >>

\* a heartbeat that is left out of a cycle in which no currency was ok
SendHeartbeatIfOk ==
  /\ pc = "heartbeat"
  /\ \E post \in PostOutcomes(SUPABASE_SET /\ \E k \in 1..Len(sink) : sink[k].status = "ok") :
       LET db == SendToDb(SUPABASE_SET, post) IN
       /\ sink' = IF \E k \in 1..Len(sink) : sink[k].status = "ok"
                  THEN Append(sink, Event(HEARTBEAT_NAME, Heartbeat)) ELSE sink
       /\ db_status' = db.status
       /\ pc' = IF db.raised THEN "crashed" ELSE "sleep"
  /\ UNCHANGED << iv_slope_hist, near_iv_hist, degraded_cycles, degraded_alert_sent,
                  i, out, alert, SUPABASE_SET, TELEGRAM_SET, market, run,
                  computed, oks, call, ret >>

\* lines 366-374: the heartbeat after the for loop
SendHeartbeat ==
  /\ pc = "heartbeat"
  /\ \E post \in PostOutcomes(SUPABASE_SET) :
       LET db == SendToDb(SUPABASE_SET, post) IN
       /\ sink' = Append(sink, Event(HEARTBEAT_NAME, Heartbeat))
       /\ db_status' = db.status
       /\ pc' = IF db.raised THEN "crashed" ELSE "sleep"
  /\ UNCHANGED << iv_slope_hist, near_iv_hist, degraded_cycles, degraded_alert_sent,
                  i, out, alert, SUPABASE_SET, TELEGRAM_SET, market, run,
                  computed, oks, call, ret >>

\* lines 376-377 and 340-343: the sleep, then the next cycle starts
Sleep ==
  /\ pc = "sleep"
  /\ pc' = "for"
  /\ i' = 1
  /\ sink' = <<>>
  /\ computed' = <<>>
  /\ UNCHANGED << iv_slope_hist, near_iv_hist, degraded_cycles, degraded_alert_sent,
                  out, db_status, alert, SUPABASE_SET, TELEGRAM_SET, market,
                  run, oks, call, ret >>

Next == ProcessCurrency \/ SendHeartbeat \/ Sleep

Spec == Init /\ [][Next]_vars

SpecVbi == InitVbi /\ [][Next]_vars

(***************************************************************************)
(* A compute_vbi call on its own: on any feed of CallFeeds, for a currency *)
(* whose histories are empty or full.                                      *)
(***************************************************************************)
service == << iv_slope_hist, near_iv_hist, degraded_cycles, degraded_alert_sent,
              pc, i, out, sink, db_status, alert, SUPABASE_SET, TELEGRAM_SET,
              market, run, computed, oks >>

\* the histories of a currency that was never ok, and of one that was ok three
\* times on the steady curve
CallHists == { <<>>, [k \in 1..PATTERN_WINDOW |-> SteadyCurve[2] - SteadyCurve[1]] }
NearOf(slope_hist) == [k \in 1..Len(slope_hist) |-> SteadyCurve[1]]

InitCall ==
  /\ InitState
  /\ SUPABASE_SET = FALSE
  /\ TELEGRAM_SET = FALSE
  /\ market = [c \in Cur |-> "steady"]
  /\ \E c \in Cur, f \in CallFeeds, h \in CallHists :
       call = Some([currency |-> c, feed |-> f, slope_hist |-> h, near_hist |-> NearOf(h)])
  /\ ret = None

CallComputeVbi ==
  /\ ret = None
  /\ ret' = Some(ComputeVbi(Val(call).currency, Val(call).feed,
                            Val(call).slope_hist, Val(call).near_hist))
  /\ UNCHANGED << service, call >>

SpecCall == InitCall /\ [][CallComputeVbi]_vars

(***************************************************************************)
(* A get_json call on its own, with the default retries: on any script of  *)
(* three responses and any jitter.                                         *)
(***************************************************************************)
Responses == {RespOk("r1"), RespOk("r2"), RespHttpError, RespError}
Scripts == [1..RETRIES -> Responses]
Jitters == [1..(RETRIES - 1) -> {0, 5}]

InitGetJson ==
  /\ InitState
  /\ SUPABASE_SET = FALSE
  /\ TELEGRAM_SET = FALSE
  /\ market = [c \in Cur |-> "steady"]
  /\ \E s \in Scripts, j \in Jitters : call = Some([script |-> s, jitter |-> j])
  /\ ret = None

CallGetJson ==
  /\ ret = None
  /\ ret' = Some(GetJson(Val(call).script, Val(call).jitter, RETRIES))
  /\ UNCHANGED << service, call >>

SpecGetJson == InitGetJson /\ [][CallGetJson]_vars

(***************************************************************************)
(* A pick_rolling_expiries call on its own: on any list of up to MaxListed *)
(* instruments whose expiries lie on, next to and between the ends of the  *)
(* ranges, with a clock that stands still or moves on by two hours at some *)
(* reading.  Some pairs of expiries lie at equal distances from a middle:   *)
(* whole days, which floats hold exactly, and an hour off whole days,      *)
(* which they do not.                                                      *)
(***************************************************************************)
MaxListed == 3

\* days to expiry at hour 0: outside the ranges (2, 121), at their ends (3,
\* 14, 45, 120), at equal distances from the middles 8.5, 29.5 and 82.5 (8
\* and 9, 29 and 30, 80 and 85)
ExpiryDays == {2, 3, 8, 9, 14, 29, 30, 45, 80, 85, 120, 121}

\* the expiries, in hours; two of them lie an hour after the end of a range,
\* and two 13 hours before and after the middle of the near range
Expiries ==
  {d * DAY : d \in ExpiryDays}
  \cup {14 * DAY + 1, 45 * DAY + 1}
  \cup {8 * DAY - 1, 9 * DAY + 1}

Listings == UNION {[1..n -> {Instr("X", e, "call", 100) : e \in Expiries}] : n \in 0..MaxListed}

\* the readings of now_ts_ms(): the clock stands at hour 0 or 2, or moves
\* from 0 to 2 after the first, second or third reading
Clocks == {<<0>>, <<2>>, <<0, 2>>, <<0, 0, 2>>, <<0, 0, 0, 2>>}

InitPick ==
  /\ InitState
  /\ SUPABASE_SET = FALSE
  /\ TELEGRAM_SET = FALSE
  /\ market = [c \in Cur |-> "steady"]
  /\ \E o \in Listings, k \in Clocks : call = Some([options |-> o, clock |-> k])
  /\ ret = None

CallPickRollingExpiries ==
  /\ ret = None
  /\ ret' = Some(PickRollingExpiries(Val(call).options, Val(call).clock))
  /\ UNCHANGED << service, call >>

SpecPick == InitPick /\ [][CallPickRollingExpiries]_vars

(***************************************************************************)
(* An atm_option call on its own: on any list of up to MaxListed           *)
(* instruments of two expiries, both sides and three strikes, for either   *)
(* expiry and side and a spot at, between and beside the strikes.          *)
(***************************************************************************)
AtmExpiries == {8 * DAY, 30 * DAY}
AtmSides == {"call", "put"}
AtmStrikes == {90, 100, 110}
AtmSpots == {95, 100, 104}
AtmInstruments ==
  {Instr(<<e, t, k>>, e, t, k) : e \in AtmExpiries, t \in AtmSides, k \in AtmStrikes}
AtmListings == UNION {[1..n -> AtmInstruments] : n \in 0..MaxListed}

InitAtm ==
  /\ InitState
  /\ SUPABASE_SET = FALSE
  /\ TELEGRAM_SET = FALSE
  /\ market = [c \in Cur |-> "steady"]
  /\ \E o \in AtmListings, e \in AtmExpiries, t \in AtmSides, p \in AtmSpots :
       call = Some([options |-> o, exp |-> e, opt_type |-> t, spot |-> p])
  /\ ret = None

CallAtmOption ==
  /\ ret = None
  /\ ret' = Some(AtmOption(Val(call).options, Val(call).exp, Val(call).opt_type,
                           Val(call).spot))
  /\ UNCHANGED << service, call >>

SpecAtm == InitAtm /\ [][CallAtmOption]_vars

(***************************************************************************)
(* A compute_vbi call that reaches the scoring: the four quotes are there, *)
(* on any term structure and put iv (a null put iv included), for a        *)
(* currency whose histories are those of no to PATTERN_WINDOW earlier ok   *)
(* results on any term structures.                                         *)
(***************************************************************************)
\* the term structures, a steep one with a zero near iv, and one whose near
\* iv is 20
ScoreCurves == Curves \cup {<<0, 8, 9>>, <<20, 24, 25>>}

\* the put ivs, and one that is 0.85 of the near iv 20
ScorePutIvs == PutIvs \cup {17}

ScoreFeeds ==
  QuoteFeeds(ScoreCurves, ScorePutIvs)
  \cup {Feed(Clean(ListingFull), Clean(SpotPrice),
             BooksOf(c, 0, [AllQuotes EXCEPT ![2] = "null"])) : c \in ScoreCurves}

\* the term structures of the earlier ok results, oldest first
PastCurves == UNION {[1..n -> Curves] : n \in 0..PATTERN_WINDOW}
SlopesOf(past) == [k \in 1..Len(past) |-> past[k][2] - past[k][1]]
NearsOf(past) == [k \in 1..Len(past) |-> past[k][1]]

InitScore ==
  /\ InitState
  /\ SUPABASE_SET = FALSE
  /\ TELEGRAM_SET = FALSE
  /\ market = [c \in Cur |-> "volatile"]
  /\ \E c \in Cur, f \in ScoreFeeds, past \in PastCurves :
       call = Some([currency |-> c, feed |-> f,
                    slope_hist |-> SlopesOf(past), near_hist |-> NearsOf(past)])
  /\ ret = None

SpecScore == InitScore /\ [][CallComputeVbi]_vars

(***************************************************************************)
(* PROPERTIES                                                              *)
(***************************************************************************)
\* main has just computed currency c (the step is a loop iteration for c)
Computes(c) == pc = "for" /\ CURRENCIES[i] = c /\ computed' = Append(computed, c)

\* new is old with v put at its end, cut to its last PATTERN_WINDOW items
Shifted(old, v, new) ==
  /\ Len(new) = Min2(Len(old) + 1, PATTERN_WINDOW)
  /\ new[Len(new)] = v
  /\ \A k \in 1..(Len(new) - 1) : new[k] = old[Len(old) - (Len(new) - 1) + k]

\* C1: every ok result returned by compute_vbi carries an integer vbi_score
\* with 0 <= vbi_score <= 100 (checked in SpecVbi)
C1_ScoreInRange == out.status = "ok" => out.vbi_score \in 0..100

\* a first ok result with no slope points and an extreme skew: its score is
\* 0, ten points above the sum of its terms
C1_Witness ==
  /\ out.status = "ok"
  /\ oks[out.symbol] = 1
  /\ out.iv_slope <= IV_SLOPE_MEDIUM
  /\ out.skew # None
  /\ Val(out.skew) < 850
  /\ out.vbi_score = 0

\* C2: in an ok result vbi_state is COLD when the score is below 30, WARM
\* when it is from 30 to 60 inclusive and HOT when it is above 60; a degraded
\* result has vbi_state DEGRADED and a null vbi_score (checked in SpecVbi)
C2_StateOfScore ==
  /\ out.status = "ok" =>
       /\ out.vbi_state \in {"COLD", "WARM", "HOT"}
       /\ out.vbi_state = "COLD" <=> out.vbi_score < 30
       /\ out.vbi_state = "WARM" <=> (30 <= out.vbi_score /\ out.vbi_score <= 60)
       /\ out.vbi_state = "HOT" <=> out.vbi_score > 60
  /\ out.status = "degraded" =>
       /\ out.vbi_state = "DEGRADED"
       /\ out.vbi_score = None

\* an ok result whose score is 60, the upper end of WARM
C2_Witness == out.status = "ok" /\ out.vbi_score = 60 /\ out.vbi_state = "WARM"

\* C3: each history of a currency holds at most PATTERN_WINDOW (3) values,
\* and they are the most recently appended ones in the order of their
\* appending: a step leaves a history as it is or puts one value at its end,
\* and a full history then loses its oldest value (checked in SpecVbi)
C3_HistoryWindow ==
  [][\A c \in Cur :
       /\ Len(iv_slope_hist'[c]) <= PATTERN_WINDOW
       /\ Len(near_iv_hist'[c]) <= PATTERN_WINDOW
       /\ \/ iv_slope_hist'[c] = iv_slope_hist[c]
          \/ /\ iv_slope_hist'[c] # <<>>
             /\ Shifted(iv_slope_hist[c], iv_slope_hist'[c][Len(iv_slope_hist'[c])],
                        iv_slope_hist'[c])
       /\ \/ near_iv_hist'[c] = near_iv_hist[c]
          \/ /\ near_iv_hist'[c] # <<>>
             /\ Shifted(near_iv_hist[c], near_iv_hist'[c][Len(near_iv_hist'[c])],
                        near_iv_hist'[c])]_vars

\* a currency that was ok more than PATTERN_WINDOW times: its full history
\* ends with the slope of the latest result and begins with another one
C3_Witness ==
  \E c \in Cur :
    /\ oks[c] > PATTERN_WINDOW
    /\ out.symbol = c
    /\ out.status = "ok"
    /\ Len(iv_slope_hist[c]) = PATTERN_WINDOW
    /\ iv_slope_hist[c][PATTERN_WINDOW] = out.iv_slope
    /\ iv_slope_hist[c][1] # out.iv_slope
    /\ iv_slope_hist[c][2] # iv_slope_hist[c][1]

\* C4: a compute_vbi call that returns a degraded result leaves both
\* histories of the currency as they were before the call; one that returns
\* an ok result has appended exactly one value to each, the iv slope and the
\* near iv of the result (checked in SpecVbi)
C4_AppendOnlyOnOk ==
  [][\A c \in Cur :
       Computes(c) =>
         /\ out'.status = "degraded" =>
              /\ iv_slope_hist'[c] = iv_slope_hist[c]
              /\ near_iv_hist'[c] = near_iv_hist[c]
         /\ out'.status = "ok" =>
              /\ Shifted(iv_slope_hist[c], out'.iv_slope, iv_slope_hist'[c])
              /\ Shifted(near_iv_hist[c], out'.near_iv, near_iv_hist'[c])]_vars

\* a degraded result by exception after PATTERN_WINDOW ok ones: the history
\* still holds the PATTERN_WINDOW values
C4_Witness ==
  /\ out.status = "degraded"
  /\ out.reason = "exception"
  /\ oks[out.symbol] = PATTERN_WINDOW
  /\ Len(iv_slope_hist[out.symbol]) = PATTERN_WINDOW
  /\ Len(near_iv_hist[out.symbol]) = PATTERN_WINDOW

\* What a feed holds, read off its scripts: a fetch fails when none of its
\* RETRIES responses is a result, and is answered by the first one that is.
Failed(script) == \A k \in 1..RETRIES : script[k].kind # "ok"
Answer(script) ==
  script[CHOOSE k \in 1..RETRIES :
           script[k].kind = "ok" /\ \A j \in 1..(k - 1) : script[j].kind # "ok"].result

\* a rung of the ladder is absent
LadderAbsent(feed) ==
  \E k \in 1..3 : PickRollingExpiries(Answer(feed.options), feed.clock)[k] = None

\* one of the four ATM instruments is absent
AtmAbsent(feed) ==
  LET listing == Answer(feed.options)
      spot    == Answer(feed.spot).index_price
      exps    == PickRollingExpiries(listing, feed.clock)
  IN \/ AtmOption(listing, Val(exps[1]), "call", spot) = None
     \/ AtmOption(listing, Val(exps[1]), "put", spot) = None
     \/ AtmOption(listing, Val(exps[2]), "call", spot) = None
     \/ AtmOption(listing, Val(exps[3]), "call", spot) = None

\* the k-th quote (near call, near put, mid call, far call): its fetch fails,
\* it is answered with no quote, it is answered with a quote whose iv is null
QuoteFailed(feed, k) == Failed(feed.books[k])
QuoteAbsent(feed, k) == ~Failed(feed.books[k]) /\ Answer(feed.books[k]) = <<>>
QuoteIvNull(feed, k) ==
  /\ ~Failed(feed.books[k])
  /\ Answer(feed.books[k]) # <<>>
  /\ Answer(feed.books[k])[1].mark_iv = None

\* the quote fetches a call made
QuoteFetches(r) ==
  Cardinality({k \in 1..Len(r.fetched) : r.fetched[k][1] = CallBook(Some(NearCalls[1]))[1]})

\* the call returned a degraded result with this reason
Gives(r, reason) == ~r.raised /\ r.out.status = "degraded" /\ r.out.reason = reason

\* C5: compute_vbi short-circuits in step order: a failed option-list or
\* spot fetch gives reason exception; otherwise an absent near, mid or far
\* expiry gives no_expiries; otherwise an absent ATM instrument among the
\* four gives no_atm; otherwise a quote fetch that fails gives exception;
\* otherwise an absent quote among the four gives no_book; otherwise a null
\* near, mid or far call iv gives no_iv.  When the ladder or the ATM step
\* fails no quote is fetched.  (checked in SpecCall)
C5_ReasonOrder ==
  ret # None =>
    LET f == Val(call).feed
        r == Val(ret)
    IN IF Failed(f.options) \/ Failed(f.spot)
       THEN Gives(r, "exception") /\ QuoteFetches(r) = 0
       ELSE IF LadderAbsent(f)
       THEN Gives(r, "no_expiries") /\ QuoteFetches(r) = 0
       ELSE IF AtmAbsent(f)
       THEN Gives(r, "no_atm") /\ QuoteFetches(r) = 0
       ELSE IF \E k \in 1..4 : QuoteFailed(f, k)
       THEN Gives(r, "exception")
       ELSE IF \E k \in 1..4 : QuoteAbsent(f, k)
       THEN Gives(r, "no_book") /\ QuoteFetches(r) = 4
       ELSE IF \E k \in {1, 3, 4} : QuoteIvNull(f, k)
       THEN Gives(r, "no_iv") /\ QuoteFetches(r) = 4
       ELSE TRUE

\* the near call was answered with no quote and the fetch of the far call
\* failed: all four quotes were fetched and the reason is exception
C5_Witness ==
  /\ ret # None
  /\ ~Failed(Val(call).feed.options)
  /\ ~Failed(Val(call).feed.spot)
  /\ ~LadderAbsent(Val(call).feed)
  /\ ~AtmAbsent(Val(call).feed)
  /\ QuoteAbsent(Val(call).feed, 1)
  /\ QuoteFailed(Val(call).feed, 4)
  /\ QuoteFetches(Val(ret)) = 4
  /\ Gives(Val(ret), "exception")

\* C5 as the specification states it, where an absent quote gives no_book
\* once the fetches of the option list and of the spot, the ladder and the
\* ATM selection have succeeded: when the ladder and the four ATM
\* instruments are there, a quote that was fetched and is absent gives
\* no_book
C5_AsStated ==
  ret # None =>
    LET f == Val(call).feed
        r == Val(ret)
    IN IF Failed(f.options) \/ Failed(f.spot)
       THEN Gives(r, "exception") /\ QuoteFetches(r) = 0
       ELSE IF LadderAbsent(f)
       THEN Gives(r, "no_expiries") /\ QuoteFetches(r) = 0
       ELSE IF AtmAbsent(f)
       THEN Gives(r, "no_atm") /\ QuoteFetches(r) = 0
       ELSE IF \E k \in 1..4 : QuoteAbsent(f, k) /\ k <= QuoteFetches(r)
       THEN Gives(r, "no_book")
       ELSE TRUE

\* C6: compute_vbi never lets an exception out: what is raised while a
\* currency is computed becomes a degraded result, so main never stops in
\* the loop, every call leaves a result, and in every cycle each currency of
\* CURRENCIES is computed exactly once, in order, whatever happened to the
\* currencies before it (checked in Spec)
C6_EveryCurrencyComputed ==
  /\ pc # "crashed"
  /\ out.status \in {"none", "ok", "degraded"}
  /\ computed = SubSeq(CURRENCIES, 1, IF pc = "for" THEN i - 1 ELSE Len(CURRENCIES))

\* the cycle went through all the currencies, the first one was degraded and
\* the last one raised an exception that became a degraded result
C6_Witness ==
  /\ pc = "heartbeat"
  /\ computed = CURRENCIES
  /\ sink[1].status = "degraded"
  /\ out.symbol = CURRENCIES[Len(CURRENCIES)]
  /\ out.status = "degraded"
  /\ out.reason = "exception"

\* C7: send_telegram_alert is called for a currency exactly in the cycle in
\* which its run of consecutive degraded results reaches ALERT_CYCLES (3):
\* not in a shorter run, not again in the 4th and later cycles of the run,
\* and again when a later run reaches 3 (checked in Spec)
C7_AlertOncePerRun ==
  computed # <<>> =>
    LET c == computed[Len(computed)] IN
    /\ alert # None <=> run[c] = ALERT_CYCLES
    /\ alert # None =>
         /\ Val(alert).text.symbol = c
         /\ Val(alert).text.cycles = ALERT_CYCLES

\* the alert of a currency whose run has just reached ALERT_CYCLES
C7_Witness ==
  /\ alert # None
  /\ computed # <<>>
  /\ Val(alert).text.symbol = computed[Len(computed)]
  /\ run[Val(alert).text.symbol] = ALERT_CYCLES
  /\ out.status = "degraded"

\* C8: degraded_cycles[c] is the number of consecutive degraded results of
\* c immediately before and including the latest one (0 when the latest was
\* ok), and degraded_alert_sent[c] is true exactly when
\* degraded_cycles[c] >= 3 (checked in Spec)
C8_CounterAndLatch ==
  \A c \in Cur :
    /\ degraded_cycles[c] = run[c]
    /\ degraded_alert_sent[c] <=> degraded_cycles[c] >= ALERT_CYCLES

\* a currency in the cycle after its alert: the counter is past ALERT_CYCLES,
\* the latch is set and no alert goes out
C8_Witness ==
  \E c \in Cur :
    /\ out.status = "degraded"
    /\ out.symbol = c
    /\ degraded_cycles[c] > ALERT_CYCLES
    /\ degraded_alert_sent[c]
    /\ alert = None

\* the first n events of the cycle are the snapshots of the first n
\* currencies, in order
Snapshots(n) ==
  \A k \in 1..n :
    /\ sink[k].event = EVENT_NAME
    /\ sink[k].symbol = CURRENCIES[k]
    /\ sink[k].status \in {"ok", "degraded"}

\* C9: in every cycle main hands the sink exactly one snapshot event per
\* currency, ok or degraded, in CURRENCIES order, each one before the next
\* currency is computed, and then exactly one heartbeat event, also in a
\* cycle in which every currency was degraded (checked in Spec)
C9_EventsOfCycle ==
  /\ pc = "for" => Len(sink) = i - 1
  /\ pc = "heartbeat" => Len(sink) = Len(CURRENCIES)
  /\ pc = "sleep" =>
       /\ Len(sink) = Len(CURRENCIES) + 1
       /\ sink[Len(sink)] = Event(HEARTBEAT_NAME, Heartbeat)
  /\ Len(sink) >= Len(computed)
  /\ Snapshots(Len(computed))
  /\ computed # <<>> => sink[Len(computed)].status = out.status

\* the end of a cycle in which every currency was degraded: the heartbeat
\* follows the snapshots
C9_Witness ==
  /\ pc = "sleep"
  /\ \A k \in 1..Len(CURRENCIES) : sink[k].status = "degraded"
  /\ sink[Len(CURRENCIES) + 1].event = HEARTBEAT_NAME

FirstOk(script) ==
  CHOOSE k \in 1..RETRIES : script[k].kind = "ok" /\ \A j \in 1..(k - 1) : script[j].kind # "ok"

\* C10: get_json with the default retries makes at most 3 attempts and
\* returns the result of the first one that succeeds; it sleeps only after a
\* failed attempt that is not the last, so at most twice; when the third
\* attempt fails it raises; a response with a provider "error" field is a
\* failed attempt, never a result (checked in SpecGetJson)
C10_GetJsonRetries ==
  ret # None =>
    LET script == Val(call).script
        r      == Val(ret)
    IN /\ r.attempts \in 1..RETRIES
       /\ Len(r.sleeps) = r.attempts - 1
       /\ \A k \in 1..(r.attempts - 1) : script[k].kind # "ok"
       /\ IF Failed(script)
          THEN r.status = "raised" /\ r.attempts = RETRIES
          ELSE /\ r.status = "returned"
               /\ r.attempts = FirstOk(script)
               /\ script[r.attempts].kind = "ok"
               /\ r.result = script[r.attempts].result

\* a provider error, then an HTTP failure, then a result: three attempts, two
\* sleeps, and the result of the third attempt
C10_Witness ==
  /\ ret # None
  /\ Val(call).script[1].kind = "error"
  /\ Val(call).script[2].kind = "http_error"
  /\ Val(call).script[3].kind = "ok"
  /\ Val(ret).status = "returned"
  /\ Val(ret).attempts = RETRIES
  /\ Len(Val(ret).sleeps) = RETRIES - 1
  /\ Val(ret).result = Val(call).script[3].result

\* the iv the feed answers for the k-th quote (None when it is null)
QuotedIv(feed, k) == Answer(feed.books[k])[1].mark_iv

\* the reference score: slope points, history points, skew points, clamped.
\* hist is the near-iv history after the append; the skew is put / near,
\* present when near is not 0 and put is not null
ReferencePoints(iv_slope, near, hist, put) ==
  (IF iv_slope > 3 THEN 40 ELSE 0)
  + (IF iv_slope > 6 THEN 20 ELSE 0)
  + (IF Len(hist) = 3 /\ 3 * near > hist[1] + hist[2] + hist[3] THEN 20 ELSE 0)
  + (IF near # 0 /\ put # None /\ 100 * Abs(Val(put) - near) < 5 * near THEN 10 ELSE 0)
  - (IF near # 0 /\ put # None /\ 100 * Abs(Val(put) - near) > 15 * near THEN 10 ELSE 0)
ReferenceScore(iv_slope, near, hist, put) ==
  LET points == ReferencePoints(iv_slope, near, hist, put) IN
  IF points < 0 THEN 0 ELSE IF points > 100 THEN 100 ELSE points

\* C11: the score of every ok result is the reference value: the clamp to
\* [0,100] of 40 if iv_slope > 3, plus 20 if iv_slope > 6, plus 20 if the
\* near-iv history after the append holds 3 entries and near_iv is above
\* their mean, plus 10 if the skew is present and |skew - 1| < 0.05, minus
\* 10 if it is present and |skew - 1| > 0.15.  It fails for a skew of 0.85:
\* |skew - 1| is 0.15, which is not above 0.15, and the floats of the code
\* make it 0.15000000000000002, which is above the double 0.15, so that 10
\* are taken off (checked in SpecScore, where the statement fails)
C11_AsStated ==
  (ret # None /\ Val(ret).out.status = "ok") =>
    LET f == Val(call).feed
        r == Val(ret)
    IN r.out.vbi_score =
         ReferenceScore(Val(QuotedIv(f, 3)) - Val(QuotedIv(f, 1)), Val(QuotedIv(f, 1)),
                        r.near_iv_hist, QuotedIv(f, 2))

\* The points of an ok result o that do not come from the history, read off
\* the result.  Its skew is in thousandths (no skew of the model lies within
\* a thousandth of a band); a near iv that is not 0 with a null skew is the
\* skew 0 of a put iv of 0, which round(skew, 3) if skew else None reports
\* as null.
SlopePointsOf(o) ==
  (IF o.iv_slope > 3 THEN 40 ELSE 0) + (IF o.iv_slope > 6 THEN 20 ELSE 0)
SkewPointsOf(o) ==
  IF o.near_iv = 0 THEN 0
  ELSE IF o.skew = None THEN -10
  ELSE IF Abs(Val(o.skew) - 1000) < 50 THEN 10
  ELSE IF Abs(Val(o.skew) - 1000) > 150 THEN -10
  ELSE 0

\* C12: on the first and on the second ok result of a currency since the
\* start, the near-iv history holds as many entries as there were ok
\* results, fewer than 3, and the score holds no '+20 near_iv above mean':
\* it is the clamped sum of the slope and skew points alone, whatever the
\* ivs are and whatever happened in between (checked in SpecVbi)
C12_NoHistoryPointsBeforeThird ==
  (out.status = "ok" /\ oks[out.symbol] \in {1, 2}) =>
    /\ Len(near_iv_hist[out.symbol]) = oks[out.symbol]
    /\ out.vbi_score = Max2(0, SlopePointsOf(out) + SkewPointsOf(out))

\* the second ok result of a currency, with a near iv above the first one
\* (and so above the mean of the two)
C12_Witness ==
  /\ out.status = "ok"
  /\ oks[out.symbol] = 2
  /\ Len(near_iv_hist[out.symbol]) = 2
  /\ near_iv_hist[out.symbol][2] > near_iv_hist[out.symbol][1]
  /\ out.near_iv = near_iv_hist[out.symbol][2]

\* the pattern label of an ok result o on the slope history s and the near-iv
\* history n of its currency
PostEvent(o, n) == o.iv_slope < -2 /\ o.curvature < 0 /\ o.near_iv < n[2]
PreBreak(o, s, n) ==
  /\ s[1] < s[2] /\ s[2] < s[3]
  /\ 100 * (Max2(n[1], Max2(n[2], n[3])) - Min2(n[1], Min2(n[2], n[3]))) < 2 * o.near_iv
  /\ o.skew # None
  /\ Abs(Val(o.skew) - 1000) < 50
  /\ o.curvature > 0
PatternOf(o, s, n) ==
  IF Len(s) < 3 THEN "NEUTRAL"
  ELSE IF PostEvent(o, n) THEN "POST_EVENT"
  ELSE IF PreBreak(o, s, n) THEN "PRE_BREAK"
  ELSE "NEUTRAL"

\* C13: every ok result carries a pattern label vbi_pattern: NEUTRAL when
\* the slope history of the currency holds fewer than 3 entries, and with 3
\* entries POST_EVENT, else PRE_BREAK, else NEUTRAL by the rules of
\* PatternOf.  compute_vbi returns no vbi_pattern at all (checked in
\* SpecVbi, where the statement fails)
C13_AsStated ==
  out.status = "ok" =>
    /\ "vbi_pattern" \in DOMAIN out
    /\ out.vbi_pattern = PatternOf(out, iv_slope_hist[out.symbol], near_iv_hist[out.symbol])

\* The buckets at a fixed now, in hours to expiry: an expiry exactly 14 (45)
\* days away is in the near (mid) bucket only.
InBucket(rung, hours) ==
  IF rung = 1 THEN 3 * 24 <= hours /\ hours <= 14 * 24
  ELSE IF rung = 2 THEN 14 * 24 < hours /\ hours <= 45 * 24
  ELSE 45 * 24 < hours /\ hours <= 120 * 24
Members(options, now, rung) ==
  {k \in 1..Len(options) : InBucket(rung, options[k].expiration_timestamp - now)}

\* twice the distance, in hours, of an expiry to the middle of a bucket (8.5,
\* 29.5, 82.5 days)
MiddleTwice(rung) == IF rung = 1 THEN 17 * 24 ELSE IF rung = 2 THEN 59 * 24 ELSE 165 * 24
Distance(options, now, rung, k) ==
  Abs(2 * (options[k].expiration_timestamp - now) - MiddleTwice(rung))

\* picked is the first member of the bucket that is nearest to its middle, or
\* absent when the bucket has no member
RungPicked(options, now, rung, picked) ==
  IF Members(options, now, rung) = {} THEN picked = None
  ELSE /\ picked # None
       /\ \E k \in Members(options, now, rung) :
            /\ options[k].expiration_timestamp = Val(picked)
            /\ \A j \in Members(options, now, rung) :
                 /\ Distance(options, now, rung, k) <= Distance(options, now, rung, j)
                 /\ j < k => Distance(options, now, rung, j) > Distance(options, now, rung, k)

\* C14: pick_rolling_expiries at a fixed now returns for each of near, mid
\* and far an expiry of the list that is in the bucket ([3,14], [14,45],
\* [45,120] days to expiry), at the least distance to the bucket's middle
\* among the bucket's members, the first such in list order; a rung whose
\* bucket has no member is absent, and the empty list gives three absents.
\* It fails for a list with an expiry 7 days 23 hours away before one 9 days
\* 1 hour away: both are 13 hours from the middle, and the floats of the code
\* make the key of the second the smaller one, so that the second is picked
\* (checked in SpecPick, where the statement fails)
C14_AsStated ==
  (ret # None /\ Len(Val(call).clock) = 1) =>
    /\ \A rung \in 1..3 :
         RungPicked(Val(call).options, Val(call).clock[1], rung, Val(ret)[rung])
    /\ Val(call).options = <<>> => Val(ret) = <<None, None, None>>

\* C19: whenever pick_rolling_expiries returns three present expiries they
\* are distinct, with near < mid < far, for every instrument list and also
\* when the clock moves on during the call.  It fails when the clock moves:
\* an expiry an hour past the 14 days is put in the mid bucket at one
\* reading and, listed again, in the near bucket at a later one (checked in
\* SpecPick, where the statement fails)
C19_AsStated ==
  (ret # None /\ Val(ret)[1] # None /\ Val(ret)[2] # None /\ Val(ret)[3] # None) =>
    /\ Val(Val(ret)[1]) < Val(Val(ret)[2])
    /\ Val(Val(ret)[2]) < Val(Val(ret)[3])

\* the instruments of the list with this expiry and side
Matching(options, exp, side) ==
  {k \in 1..Len(options) :
     options[k].expiration_timestamp = exp /\ options[k].option_type = side}

\* C15: atm_option(options, exp, side, spot) returns an instrument of the
\* list with expiry exp and side side whose |strike - spot| is the least
\* among all of them, the first such in list order; it returns absent
\* exactly when no instrument of the list has both exp and side (checked in
\* SpecAtm)
C15_AtmIsNearestStrike ==
  ret # None =>
    LET options == Val(call).options
        spot    == Val(call).spot
        match   == Matching(options, Val(call).exp, Val(call).opt_type)
    IN /\ Val(ret) = None <=> match = {}
       /\ Val(ret) # None =>
            \E k \in match :
              /\ options[k] = Val(Val(ret))
              /\ \A j \in match :
                   /\ Abs(options[k].strike - spot) <= Abs(options[j].strike - spot)
                   /\ j < k => Abs(options[j].strike - spot) > Abs(options[k].strike - spot)

\* strikes 110 and 90 of the wanted expiry and side, equally far from the
\* spot 100, after an instrument of the other side at the spot: the 110 one,
\* listed first, is returned
C15_Witness ==
  /\ ret # None
  /\ Val(call).spot = 100
  /\ Len(Val(call).options) = 3
  /\ Val(call).options[1].option_type # Val(call).opt_type
  /\ Val(call).options[1].strike = 100
  /\ Val(call).options[1].expiration_timestamp = Val(call).exp
  /\ Val(call).options[2].strike = 110
  /\ Val(call).options[3].strike = 90
  /\ Val(ret) # None
  /\ Val(Val(ret)) = Val(call).options[2]

\* C16: when the near-call iv is 0, the four quotes being there and the mid
\* and far call ivs not null, compute_vbi does not raise and is not
\* degraded: it returns an ok result whose skew is null and whose score holds
\* neither the +10 of the neutral band nor the -10 of the extreme band: it
\* is the clamped sum of the slope and history points (checked in SpecScore)
C16_ZeroNearIvGivesNoSkew ==
  (ret # None /\ QuotedIv(Val(call).feed, 1) = Some(0)) =>
    LET f == Val(call).feed
        r == Val(ret)
    IN /\ ~r.raised
       /\ r.out.status = "ok"
       /\ r.out.skew = None
       /\ r.out.vbi_score =
            ReferenceScore(Val(QuotedIv(f, 3)), 0, r.near_iv_hist, None)

\* a near-call iv of 0 under a steep term structure with a null put iv: an ok
\* result with the 60 points of the slope and a null skew
C16_Witness ==
  /\ ret # None
  /\ QuotedIv(Val(call).feed, 1) = Some(0)
  /\ QuotedIv(Val(call).feed, 2) = None
  /\ Val(ret).out.status = "ok"
  /\ Val(ret).out.skew = None
  /\ Val(ret).out.vbi_score = 60

\* C17: the step that processes currency c (compute_vbi(c) and the counter
\* update of main for c) leaves iv_slope_hist, near_iv_hist, degraded_cycles
\* and degraded_alert_sent of every other currency as they were, and no
\* other step (heartbeat, sleep) changes them for any currency: those of d
\* change only in a step that processes d (checked in Spec)
C17_OtherCurrenciesUntouched ==
  [][\A d \in Cur :
       ~Computes(d) =>
         /\ iv_slope_hist'[d] = iv_slope_hist[d]
         /\ near_iv_hist'[d] = near_iv_hist[d]
         /\ degraded_cycles'[d] = degraded_cycles[d]
         /\ degraded_alert_sent'[d] = degraded_alert_sent[d]]_vars

\* a currency has just come out ok, with a full history, a counter at 0 and
\* its latch unset, while another one keeps a shorter history, a counter past
\* ALERT_CYCLES and its latch
C17_Witness ==
  \E c \in Cur : \E d \in Cur \ {c} :
    /\ out.status = "ok"
    /\ out.symbol = c
    /\ computed # <<>>
    /\ computed[Len(computed)] = c
    /\ Len(near_iv_hist[c]) = PATTERN_WINDOW
    /\ degraded_cycles[c] = 0
    /\ Len(near_iv_hist[d]) \in 1..(PATTERN_WINDOW - 1)
    /\ Len(iv_slope_hist[d]) = Len(near_iv_hist[d])
    /\ degraded_cycles[d] >= ALERT_CYCLES
    /\ degraded_alert_sent[d]

\* C18: send_to_db returns normally whether the post succeeds, raises (it
\* is caught inside) or is skipped for want of configuration, so main never
\* stops on it; in the step that processes c the counter, the latch, the
\* alert decision and the move to the next currency (or to the heartbeat) are
\* what the result of compute_vbi and the state before the step give,
\* whatever became of the event; the heartbeat step goes on to the sleep
\* whatever becomes of the heartbeat, and changes no history (checked in Spec)
C18_SinkFailureIsIsolated ==
  [][/\ pc' # "crashed"
     /\ \A c \in Cur :
          Computes(c) =>
            LET deg    == out'.status = "degraded"
                cycles == IF deg THEN degraded_cycles[c] + 1 ELSE 0
                due    == deg /\ cycles >= ALERT_CYCLES /\ ~degraded_alert_sent[c]
            IN /\ db_status' \in {"posted", "failed", "skipped"}
               /\ degraded_cycles'[c] = cycles
               /\ degraded_alert_sent'[c] = (deg /\ (due \/ degraded_alert_sent[c]))
               /\ alert' # None <=> due
               /\ i' = i + 1
               /\ pc' = IF i = Len(CURRENCIES) THEN "heartbeat" ELSE "for"
               /\ ~deg => /\ Len(iv_slope_hist'[c]) = Min2(Len(iv_slope_hist[c]) + 1, PATTERN_WINDOW)
                          /\ Len(near_iv_hist'[c]) = Min2(Len(near_iv_hist[c]) + 1, PATTERN_WINDOW)
               /\ deg => /\ iv_slope_hist'[c] = iv_slope_hist[c]
                         /\ near_iv_hist'[c] = near_iv_hist[c]
     /\ pc = "heartbeat" =>
          /\ pc' = "sleep"
          /\ db_status' \in {"posted", "failed", "skipped"}
          /\ iv_slope_hist' = iv_slope_hist
          /\ near_iv_hist' = near_iv_hist]_vars

\* the post of the snapshot of the last currency failed in the cycle in which
\* its counter reached ALERT_CYCLES: the alert went out, the latch is set and
\* main is at the heartbeat
C18_Witness ==
  /\ db_status = "failed"
  /\ SUPABASE_SET
  /\ pc = "heartbeat"
  /\ out.status = "degraded"
  /\ out.symbol = CURRENCIES[Len(CURRENCIES)]
  /\ degraded_cycles[out.symbol] = ALERT_CYCLES
  /\ degraded_alert_sent[out.symbol]
  /\ alert # None

\* C20: in the step in which the alert condition is met for c (the counter
\* reaches ALERT_CYCLES or more with the latch unset) send_telegram_alert is
\* called and degraded_alert_sent[c] is true afterwards, whether the alert
\* was sent, skipped for want of configuration, or failed because the post
\* raised; with the latch set, the next result of c brings no alert, so an
\* alert is attempted only with the latch unset, which after an attempt takes
\* an ok result, and with a run that has reached ALERT_CYCLES again
\* (checked in Spec)
C20_LatchSetWhateverDelivery ==
  [][\A c \in Cur :
       Computes(c) =>
         /\ alert' # None =>
              /\ Val(alert').status \in {"sent", "skipped", "failed"}
              /\ ~TELEGRAM_SET => Val(alert').status = "skipped"
              /\ degraded_alert_sent'[c]
              /\ ~degraded_alert_sent[c]
              /\ run'[c] = ALERT_CYCLES
              /\ pc' # "crashed"
         /\ degraded_alert_sent[c] =>
              /\ alert' = None
              /\ degraded_alert_sent'[c] <=> out'.status = "degraded"
         /\ (~degraded_alert_sent[c] /\ degraded_alert_sent'[c]) => alert' # None]_vars

\* Telegram is not configured, so the alert of the third cycle of the run
\* was skipped; in the fourth cycle the latch is set, the currency is degraded
\* again and no alert is attempted
C20_Witness ==
  \E c \in Cur :
    /\ out.status = "degraded"
    /\ out.symbol = c
    /\ ~TELEGRAM_SET
    /\ run[c] = ALERT_CYCLES + 1
    /\ degraded_alert_sent[c]
    /\ alert = None
    /\ computed # <<>>
    /\ computed[Len(computed)] = c

====
